---- MODULE Spec2Model ----
(***************************************************************************)
(* The chat client of src/frontend/src/App.jsx as a state machine.         *)
(*                                                                         *)
(* One step is one discrete browser event handled to completion: a user    *)
(* event (click, key, change), the completion of one axios call (resolved  *)
(* or rejected) or the firing of one timer.  A step includes the re-render *)
(* and the effects that the state change triggers (useEffect on            *)
(* currentSessionId, App.jsx:34-40).                                       *)
(*                                                                         *)
(* An async handler reads the component state through the closure of the   *)
(* render in which it was created: after its await it still sees the       *)
(* `sessions` and `currentSessionId` of the moment it was called.  Each    *)
(* outstanding request therefore carries that snapshot.  State updates of  *)
(* the form setX(prev => ...) read the state of the moment they run.       *)
(*                                                                         *)
(* Text is a sequence of one-character strings, so that String.trim is     *)
(* computed and not assumed.  A session is modelled by its id (its title   *)
(* is never read by the handlers).  The backend is not part of the         *)
(* repository: it is modelled from the HTTP table of the specification.    *)
(***************************************************************************)
EXTENDS Bags, FiniteSets, Integers, Sequences, TLC

VARIABLES
    sessions,          \* useState([])     App.jsx:17  sequence of session ids
    currentSessionId,  \* useState(null)   App.jsx:18
    messages,          \* useState([])     App.jsx:19  sequence of {role, content}
    inputValue,        \* useState('')     App.jsx:20
    isLoading,         \* useState(false)  App.jsx:21
    isUploading,       \* useState(false)  App.jsx:22
    uploadStatus,      \* useState(null)   App.jsx:23
    pending,           \* bag of session and chat axios calls not completed yet
    uploadCalls,       \* number of axios.post(/upload) calls not completed yet
    timers,            \* number of setTimeout callbacks not fired yet (App.jsx:126)
    dialogOpen,        \* the file chooser opened by fileInputRef.current.click()
    srvSessions,       \* backend: the session ids it stores, newest first
    srvMessages,       \* backend: the message log of every session id
    nextId,            \* backend: the next id it hands out
    issued,            \* number of calls the user has caused so far (bounded)
    uploads,           \* number of uploads started so far (bounded)
    sendBase           \* history: <<M>> right after a send accepted on conversation M

\* The state the session and conversation handlers read and write.
chatVars == <<sessions, currentSessionId, messages, inputValue, isLoading, pending,
              srvSessions, srvMessages, nextId, issued, sendBase>>

\* The state the upload handlers read and write.
uploadVars == <<isUploading, uploadStatus, uploadCalls, timers, dialogOpen, uploads>>

vars == <<chatVars, uploadVars>>

serverVars == <<srvSessions, srvMessages, nextId>>

(***************************************************************************)
(* Bounds of the model.                                                    *)
(***************************************************************************)
\* Calls the user may cause in one run: select, create, delete, send.
MaxRequests == 4
\* Uploads the user may start in one run.
MaxUploads == 6

(***************************************************************************)
(* Values.                                                                 *)
(***************************************************************************)
\* null; session ids are the positive numbers the backend hands out.
NULL == 0

\* The upload status null of App.jsx:23 and 126: no status shown.
NoStatus == "null"

\* The lists the backend may hold when the page loads.
InitialServerLists == {<<>>, <<1>>}

\* Every id a run can meet: the initial one and one per create.
Ids == 1..(MaxRequests + 1)

\* What the user can have typed: "", "  ", "hi", " hi ".
Inputs == {<<>>, <<" ", " ">>, <<"h", "i">>, <<" ", "h", "i", " ">>}

\* The backend's reply to a chat call.
Replies == {<<"o", "k">>}

\* The file the chooser hands to onChange; NoFile: e.target.files[0] is undefined.
NoFile == "none"
FileChoices == {NoFile, "doc.pdf"}

(***************************************************************************)
(* Text.                                                                   *)
(***************************************************************************)
IsSpace(c) == c = " "

RECURSIVE TrimStart(_)
TrimStart(s) ==
    IF s = <<>> THEN <<>>
    ELSE IF IsSpace(Head(s)) THEN TrimStart(Tail(s)) ELSE s

RECURSIVE TrimEnd(_)
TrimEnd(s) ==
    IF s = <<>> THEN <<>>
    ELSE IF IsSpace(s[Len(s)]) THEN TrimEnd(SubSeq(s, 1, Len(s) - 1)) ELSE s

\* Faulty variant of Trim: only the leading spaces are removed.
TrimStartOnly(s) == TrimStart(s)

\* String.prototype.trim, App.jsx:92
Trim(s) == TrimEnd(TrimStart(s))

\* "X Connection Error", X standing for the cross mark U+274C (App.jsx:107)
ConnectionError ==
    <<"X", " ", "C", "o", "n", "n", "e", "c", "t", "i", "o", "n", " ",
      "E", "r", "r", "o", "r">>

RateLimited == <<"r", "a", "t", "e", " ", "l", "i", "m", "i", "t", "e", "d">>
NetworkError == <<"N", "e", "t", "w", "o", "r", "k", " ", "E", "r", "r", "o", "r">>
UnknownError == <<"U", "n", "k", "n", "o", "w", "n", " ", "e", "r", "r", "o", "r">>

\* What axios rejects with: error.response?.data?.error and error.message, the
\* empty text standing for a missing (or empty, equally falsy) field.
Errors ==
    { [error |-> RateLimited, message |-> NetworkError],
      [error |-> <<>>, message |-> NetworkError],
      [error |-> <<>>, message |-> <<>>] }

\* error.response?.data?.error || error.message || 'Unknown error'
ErrorText(err) ==
    IF err.error # <<>> THEN err.error
    ELSE IF err.message # <<>> THEN err.message
    ELSE UnknownError

(***************************************************************************)
(* Messages and requests.                                                  *)
(***************************************************************************)
Msg(role, content) == [role |-> role, content |-> content]
UserMsg(content) == Msg("user", content)
AssistantMsg(content) == Msg("assistant", content)

Range(s) == {s[i] : i \in 1..Len(s)}

\* sessions.filter(s => s.id !== id), App.jsx:72
RECURSIVE Without(_, _)
Without(s, id) ==
    IF s = <<>> THEN <<>>
    ELSE IF Head(s) = id THEN Without(Tail(s), id)
    ELSE <<Head(s)>> \o Without(Tail(s), id)

\* An outstanding axios call: its kind, its arguments and what the handler's
\* closure holds of the component state (sessions, currentSessionId).
Req(kind, id, message, snapSessions, snapCurrent) ==
    [kind |-> kind, id |-> id, message |-> message,
     sessions |-> snapSessions, cur |-> snapCurrent]

ListReq(cur) == Req("listSessions", NULL, <<>>, <<>>, cur)
CreateReq(snap) == Req("createSession", NULL, <<>>, snap, NULL)
DeleteReq(id, snap, cur) == Req("deleteSession", id, <<>>, snap, cur)
MessagesReq(id) == Req("fetchMessages", id, <<>>, <<>>, NULL)
ChatReq(message, sessionId) == Req("sendChat", sessionId, message, <<>>, NULL)

Issue(reqs, req) == reqs (+) SetToBag({req})
Complete(reqs, req) == reqs (-) SetToBag({req})

OfKind(kind) == {r \in BagToSet(pending) : r.kind = kind}

RECURSIVE Copies(_)
Copies(S) ==
    IF S = {} THEN 0
    ELSE LET r == CHOOSE x \in S : TRUE IN CopiesIn(r, pending) + Copies(S \ {r})

\* How many calls of a kind are outstanding.
Outstanding(kind) == Copies(OfKind(kind))

(***************************************************************************)
(* useEffect(..., [currentSessionId]), App.jsx:34-40: runs after the       *)
(* render in which currentSessionId changed.                               *)
(***************************************************************************)
EffectMessages(old, new, msgs) ==
    IF new # old /\ new = NULL THEN <<>> ELSE msgs

EffectRequests(old, new, reqs) ==
    IF new # old /\ new # NULL THEN Issue(reqs, MessagesReq(new)) ELSE reqs

(***************************************************************************)
(* The initial state: after the first render and its effects.  The startup *)
(* effect has called fetchSessions (App.jsx:29-31), whose closure holds    *)
(* the first render's currentSessionId; the selection effect found no      *)
(* selection and set the empty conversation.                               *)
(***************************************************************************)
Init ==
    /\ sessions = <<>>
    /\ currentSessionId = NULL
    /\ messages = <<>>
    /\ inputValue = <<>>
    /\ isLoading = FALSE
    /\ isUploading = FALSE
    /\ uploadStatus = NoStatus
    /\ pending = SetToBag({ListReq(NULL)})
    /\ uploadCalls = 0
    /\ timers = 0
    /\ dialogOpen = FALSE
    /\ srvSessions \in InitialServerLists
    /\ srvMessages = [id \in Ids |-> <<>>]
    /\ nextId = Len(srvSessions) + 1
    /\ issued = 0
    /\ uploads = 0
    /\ sendBase = <<>>

(***************************************************************************)
(* The sidebar: select, create, delete; the startup list fetch.            *)
(***************************************************************************)
\* onClick={() => setCurrentSessionId(s.id)} of a listed session, App.jsx:151
SelectSession(id) ==
    /\ id \in Range(sessions)
    /\ id # currentSessionId => issued < MaxRequests
    /\ currentSessionId' = id
    /\ messages' = EffectMessages(currentSessionId, id, messages)
    /\ pending' = EffectRequests(currentSessionId, id, pending)
    /\ issued' = IF id # currentSessionId THEN issued + 1 ELSE issued
    /\ sendBase' = <<>>
    /\ UNCHANGED <<sessions, inputValue, isLoading, serverVars, uploadVars>>

\* The selection fetchSessions makes, App.jsx:50-52.
SelectionAfterList(capturedCurrent, current, data) ==
    IF Len(data) > 0 /\ capturedCurrent = NULL THEN data[1] ELSE current

\* fetchSessions resolved, App.jsx:48-52: currentSessionId is the closure's.
\* The backend answers with the list it holds.
FetchSessionsOk(req) ==
    /\ req \in OfKind("listSessions")
    /\ LET data == srvSessions
           cur == SelectionAfterList(req.cur, currentSessionId, data)
       IN /\ sessions' = data
          /\ currentSessionId' = cur
          /\ messages' = EffectMessages(currentSessionId, cur, messages)
          /\ pending' = EffectRequests(currentSessionId, cur, Complete(pending, req))
    /\ sendBase' = <<>>
    /\ UNCHANGED <<inputValue, isLoading, serverVars, issued, uploadVars>>

\* A faulty variant of the catch blocks: a rejected call of the sidebar also
\* empties the conversation.
RequestFailsClearsConversation(req) ==
    /\ req \in OfKind("listSessions") \cup OfKind("createSession")
               \cup OfKind("deleteSession") \cup OfKind("fetchMessages")
    /\ pending' = Complete(pending, req)
    /\ messages' = <<>>
    /\ sendBase' = <<>>
    /\ UNCHANGED <<sessions, currentSessionId, inputValue, isLoading,
                   serverVars, issued, uploadVars>>

\* A call of the sidebar rejected (network, timeout, server error): the catch
\* only logs, App.jsx:53-55, 63-65, 77-79, 86-88.
RequestFails(req) ==
    /\ req \in OfKind("listSessions") \cup OfKind("createSession")
               \cup OfKind("deleteSession") \cup OfKind("fetchMessages")
    /\ pending' = Complete(pending, req)
    /\ sendBase' = <<>>
    /\ UNCHANGED <<sessions, currentSessionId, messages, inputValue, isLoading,
                   serverVars, issued, uploadVars>>

\* createNewSession called, App.jsx:58-60: up to the await.
CreateNewSession ==
    /\ issued < MaxRequests
    /\ pending' = Issue(pending, CreateReq(sessions))
    /\ issued' = issued + 1
    /\ sendBase' = <<>>
    /\ UNCHANGED <<sessions, currentSessionId, messages, inputValue, isLoading,
                   serverVars, uploadVars>>

\* The list createNewSession sets, App.jsx:61.
ListAfterCreate(new, capturedSessions, current) == <<new>> \o capturedSessions

\* createNewSession resolved, App.jsx:61-62: `sessions` is the closure's.
\* The backend made a session with a fresh id.
CreateSessionOk(req) ==
    /\ req \in OfKind("createSession")
    /\ LET new == nextId
       IN /\ sessions' = ListAfterCreate(new, req.sessions, sessions)
          /\ currentSessionId' = new
          /\ messages' = EffectMessages(currentSessionId, new, messages)
          /\ pending' = EffectRequests(currentSessionId, new, Complete(pending, req))
          /\ srvSessions' = <<new>> \o srvSessions
    /\ nextId' = nextId + 1
    /\ sendBase' = <<>>
    /\ UNCHANGED <<inputValue, isLoading, srvMessages, issued, uploadVars>>

\* deleteSession(e, id) called on a listed session, App.jsx:68-71: up to the await.
DeleteSession(id) ==
    /\ id \in Range(sessions)
    /\ issued < MaxRequests
    /\ pending' = Issue(pending, DeleteReq(id, sessions, currentSessionId))
    /\ issued' = issued + 1
    /\ sendBase' = <<>>
    /\ UNCHANGED <<sessions, currentSessionId, messages, inputValue, isLoading,
                   serverVars, uploadVars>>

\* The list deleteSession sets, App.jsx:72-73.
ListAfterDelete(id, capturedSessions, current) == Without(capturedSessions, id)

\* The selection deleteSession makes, App.jsx:74-76.
SelectionAfterDelete(id, capturedCurrent, current, newSessions) ==
    IF capturedCurrent = id
    THEN (IF Len(newSessions) > 0 THEN newSessions[1] ELSE NULL)
    ELSE current

\* deleteSession resolved, App.jsx:72-76: `sessions` and `currentSessionId`
\* are the closure's.  The backend dropped the session and its log.
DeleteSessionOk(req) ==
    /\ req \in OfKind("deleteSession")
    /\ LET newSessions == ListAfterDelete(req.id, req.sessions, sessions)
           cur == SelectionAfterDelete(req.id, req.cur, currentSessionId, newSessions)
       IN /\ sessions' = newSessions
          /\ currentSessionId' = cur
          /\ messages' = EffectMessages(currentSessionId, cur, messages)
          /\ pending' = EffectRequests(currentSessionId, cur, Complete(pending, req))
    /\ srvSessions' = Without(srvSessions, req.id)
    /\ srvMessages' = [srvMessages EXCEPT ![req.id] = <<>>]
    /\ sendBase' = <<>>
    /\ UNCHANGED <<inputValue, isLoading, nextId, issued, uploadVars>>

\* What a resolved fetchMessages does to the conversation, App.jsx:85.
LoadMessages(id, current, msgs, data) == data

\* fetchMessages(id) resolved, App.jsx:84-85.  The backend answers with its log.
FetchMessagesOk(req) ==
    /\ req \in OfKind("fetchMessages")
    /\ messages' = LoadMessages(req.id, currentSessionId, messages, srvMessages[req.id])
    /\ pending' = Complete(pending, req)
    /\ sendBase' = <<>>
    /\ UNCHANGED <<sessions, currentSessionId, inputValue, isLoading, serverVars,
                   issued, uploadVars>>

(***************************************************************************)
(* The conversation: typing and sending.                                   *)
(***************************************************************************)
\* disabled={isLoading || !currentSessionId} of the text input, App.jsx:277
InputDisabled(loading, current) == loading \/ current = NULL

\* onChange={(e) => setInputValue(e.target.value)}, App.jsx:274
TypeInput(text) ==
    /\ ~InputDisabled(isLoading, currentSessionId)
    /\ inputValue' = text
    /\ sendBase' = <<>>
    /\ UNCHANGED <<sessions, currentSessionId, messages, isLoading, pending,
                   serverVars, issued, uploadVars>>

\* Faulty variant of SendRejected: the selected session is not checked.
SendRejectedNoSessionCheck(message, current, loading) ==
    message = <<>> \/ loading

\* if (!message || !currentSessionId || isLoading) return, App.jsx:93
SendRejected(message, current, loading) ==
    message = <<>> \/ current = NULL \/ loading

\* Faulty variant of AppendMessage: the message is put in front.
PrependMessage(prev, msg) == <<msg>> \o prev

\* prev => [...prev, msg], App.jsx:96, 105, 107
AppendMessage(prev, msg) == Append(prev, msg)

\* Faulty variant of SendAccepted: setIsLoading(true) is missing.
SendAcceptedFlagUnset(message) ==
    /\ issued < MaxRequests
    /\ messages' = AppendMessage(messages, UserMsg(message))
    /\ inputValue' = <<>>
    /\ pending' = Issue(pending, ChatReq(message, currentSessionId))
    /\ issued' = issued + 1
    /\ sendBase' = <<messages>>
    /\ UNCHANGED <<sessions, currentSessionId, isLoading, serverVars, uploadVars>>

\* The accepted part of sendMessage up to the await, App.jsx:95-104.
SendAccepted(message) ==
    /\ issued < MaxRequests
    /\ messages' = AppendMessage(messages, UserMsg(message))
    /\ inputValue' = <<>>
    /\ isLoading' = TRUE
    /\ pending' = Issue(pending, ChatReq(message, currentSessionId))
    /\ issued' = issued + 1
    /\ sendBase' = <<messages>>
    /\ UNCHANGED <<sessions, currentSessionId, serverVars, uploadVars>>

\* sendMessage called (Enter in the input, or the send button), App.jsx:91-104.
\* The handler is callable in every state; its own guard decides.
SendMessage ==
    IF SendRejected(Trim(inputValue), currentSessionId, isLoading)
    THEN UNCHANGED vars
    ELSE SendAccepted(Trim(inputValue))

\* The content of the assistant message of a failed send, App.jsx:107.
ErrorNotice(err) == ConnectionError

\* axios.post(/chat) resolved, App.jsx:105 and 109.  The backend logged the
\* exchange under the session id of the request.
SendChatOk(req, reply) ==
    /\ req \in OfKind("sendChat")
    /\ messages' = AppendMessage(messages, AssistantMsg(reply))
    /\ isLoading' = FALSE
    /\ pending' = Complete(pending, req)
    /\ srvMessages' = [srvMessages EXCEPT ![req.id] =
                          @ \o <<UserMsg(req.message), AssistantMsg(reply)>>]
    /\ sendBase' = <<>>
    /\ UNCHANGED <<sessions, currentSessionId, inputValue, srvSessions, nextId,
                   issued, uploadVars>>

\* A faulty variant of the rejected send: the finally block is missing, so the
\* loading flag stays set.
SendChatFailsKeepsLoading(req, err) ==
    /\ req \in OfKind("sendChat")
    /\ messages' = AppendMessage(messages, AssistantMsg(ErrorNotice(err)))
    /\ pending' = Complete(pending, req)
    /\ sendBase' = <<>>
    /\ UNCHANGED <<sessions, currentSessionId, inputValue, isLoading,
                   serverVars, issued, uploadVars>>

\* axios.post(/chat) rejected, App.jsx:106-109.
SendChatFails(req, err) ==
    /\ req \in OfKind("sendChat")
    /\ messages' = AppendMessage(messages, AssistantMsg(ErrorNotice(err)))
    /\ isLoading' = FALSE
    /\ pending' = Complete(pending, req)
    /\ sendBase' = <<>>
    /\ UNCHANGED <<sessions, currentSessionId, inputValue, serverVars, issued,
                   uploadVars>>

(***************************************************************************)
(* The upload side channel.  The status texts are those of App.jsx:118,    *)
(* 125 and 128 without their leading pictograph.                           *)
(***************************************************************************)
StatusUploading == "Uploading & Indexing..."
StatusSuccess == "File indexed! Knowledge added."
StatusFailure == "Failed to index file."

\* Faulty variant of UploadButtonDisabled: the button is never disabled.
UploadButtonAlwaysEnabled(uploading) == FALSE

\* disabled={isUploading} of the upload button, App.jsx:259
UploadButtonDisabled(uploading) == uploading

\* The upload button clicked, App.jsx:256-262: opens the file chooser unless
\* the button is disabled.
UploadButtonClick ==
    IF UploadButtonDisabled(isUploading)
    THEN UNCHANGED vars
    ELSE /\ uploads < MaxUploads
         /\ dialogOpen' = TRUE
         /\ UNCHANGED <<isUploading, uploadStatus, uploadCalls, timers, uploads,
                        chatVars>>

\* onChange of the file input, App.jsx:113-124: up to the await.  The chooser
\* closes; without a file the handler returns at once.
HandleFileUpload(file) ==
    /\ dialogOpen
    /\ dialogOpen' = FALSE
    /\ IF file = NoFile
       THEN UNCHANGED <<isUploading, uploadStatus, uploadCalls, uploads>>
       ELSE /\ isUploading' = TRUE
            /\ uploadStatus' = StatusUploading
            /\ uploadCalls' = uploadCalls + 1
            /\ uploads' = uploads + 1
    /\ UNCHANGED <<timers, chatVars>>

\* Timers a resolved upload arms to clear the status, App.jsx:126.
TimersAfterSuccess(n) == n + 1

\* Timers a rejected upload arms to clear the status, App.jsx:127-129: none.
TimersAfterFailure(n) == n

\* axios.post(/upload) resolved, App.jsx:125-126 and 130.
UploadOk ==
    /\ uploadCalls > 0
    /\ uploadCalls' = uploadCalls - 1
    /\ uploadStatus' = StatusSuccess
    /\ timers' = TimersAfterSuccess(timers)
    /\ isUploading' = FALSE
    /\ UNCHANGED <<dialogOpen, uploads, chatVars>>

\* axios.post(/upload) rejected, App.jsx:127-130.
UploadFails ==
    /\ uploadCalls > 0
    /\ uploadCalls' = uploadCalls - 1
    /\ uploadStatus' = StatusFailure
    /\ timers' = TimersAfterFailure(timers)
    /\ isUploading' = FALSE
    /\ UNCHANGED <<dialogOpen, uploads, chatVars>>

\* setTimeout(() => setUploadStatus(null), 3000) fires, App.jsx:126.
TimerFires ==
    /\ timers > 0
    /\ timers' = timers - 1
    /\ uploadStatus' = NoStatus
    /\ UNCHANGED <<isUploading, uploadCalls, dialogOpen, uploads, chatVars>>

(***************************************************************************)
(* The specifications.  The session and conversation handlers and the      *)
(* upload handlers share no state (chatVars, uploadVars), so each group is *)
(* also checked alone, with the other at rest.                             *)
(***************************************************************************)
ChatNext ==
    \/ \E id \in Ids : SelectSession(id)
    \/ \E req \in BagToSet(pending) : FetchSessionsOk(req)
    \/ \E req \in BagToSet(pending) : RequestFails(req)
    \/ CreateNewSession
    \/ \E req \in BagToSet(pending) : CreateSessionOk(req)
    \/ \E id \in Ids : DeleteSession(id)
    \/ \E req \in BagToSet(pending) : DeleteSessionOk(req)
    \/ \E req \in BagToSet(pending) : FetchMessagesOk(req)
    \/ \E text \in Inputs : TypeInput(text)
    \/ SendMessage
    \/ \E req \in BagToSet(pending), reply \in Replies : SendChatOk(req, reply)
    \/ \E req \in BagToSet(pending), err \in Errors : SendChatFails(req, err)

UploadNext ==
    \/ UploadButtonClick
    \/ \E file \in FileChoices : HandleFileUpload(file)
    \/ UploadOk
    \/ UploadFails
    \/ TimerFires

Next == ChatNext \/ UploadNext

Spec == Init /\ [][Next]_vars

ChatSpec == Init /\ [][ChatNext]_vars

UploadSpec == Init /\ [][UploadNext]_vars

(***************************************************************************)
(* Properties.                                                             *)
(***************************************************************************)
Last(s) == s[Len(s)]
\* s is empty or holds spaces only.
Blank(s) == \A k \in 1..Len(s) : s[k] = " "
EndsWith(s, t) == Len(t) <= Len(s) /\ SubSeq(s, Len(s) - Len(t) + 1, Len(s)) = t
ChatCalls == BagToSet(pending)

\* C1: a send issued on session X that completes (reply or failure) after the
\* selection has moved to another session Y appends nothing to the conversation
\* then shown for Y.
C1_LateReplyDropped ==
    [][\A req \in ChatCalls :
          ( /\ req.kind = "sendChat"
            /\ currentSessionId # NULL
            /\ currentSessionId # req.id
            /\ \/ \E reply \in Replies : SendChatOk(req, reply)
               \/ \E err \in Errors : SendChatFails(req, err) )
          => messages' = messages]_vars

\* C2: at most one sendChat call is outstanding at any time, and sendMessage
\* called while one is outstanding appends no message and issues no call.
C2_OneSendAtATime ==
    /\ [](Outstanding("sendChat") <= 1)
    /\ [][(Outstanding("sendChat") > 0 /\ SendMessage)
             => UNCHANGED <<messages, pending, inputValue, isLoading>>]_vars

\* A send is outstanding on a selected session and the run could still issue
\* another: the state in which a second sendMessage call meets the gate.
C2_Witness ==
    /\ Outstanding("sendChat") = 1
    /\ isLoading
    /\ currentSessionId # NULL
    /\ issued < MaxRequests

\* C3: sendMessage with an input that is empty once trimmed, or with no session
\* selected, issues no call and leaves messages, input and loading flag alone.
C3_InvalidSendIsNoOp ==
    [][(SendMessage /\ (Blank(inputValue) \/ currentSessionId = NULL))
          => UNCHANGED <<messages, pending, inputValue, isLoading>>]_vars

\* Text is waiting in the input and no session is selected (the selected
\* session was deleted after the text was typed); nothing else blocks a send.
C3_Witness ==
    /\ currentSessionId = NULL
    /\ ~Blank(inputValue)
    /\ ~isLoading
    /\ issued < MaxRequests

\* C4: a fetchMessages response for a session that is no longer the current
\* one never replaces the conversation.
C4_StaleFetchIgnored ==
    [][\A req \in ChatCalls :
          ( /\ req.kind = "fetchMessages"
            /\ req.id # currentSessionId
            /\ FetchMessagesOk(req) )
          => messages' = messages]_vars

\* C5: when a deletion of the session that is current at that moment succeeds,
\* the selection becomes the head of the remaining list, or null when nothing
\* remains; the conversation is emptied for null and refetched otherwise.
C5_DeleteCurrentReselects ==
    [][\A req \in ChatCalls :
          ( /\ req.kind = "deleteSession"
            /\ req.id = currentSessionId
            /\ DeleteSessionOk(req) )
          => /\ currentSessionId' =
                    (IF Len(sessions') > 0 THEN Head(sessions') ELSE NULL)
             /\ currentSessionId' = NULL => messages' = <<>>
             /\ currentSessionId' # NULL =>
                    MessagesReq(currentSessionId') \in BagToSet(pending')]_vars

\* C6: at most one upload call is outstanding at any time, and a click on the
\* upload button while one is outstanding starts nothing and changes nothing.
C6_OneUploadAtATime ==
    /\ [](uploadCalls <= 1)
    /\ [][(uploadCalls > 0 /\ UploadButtonClick) => UNCHANGED uploadVars]_vars

\* An upload is in flight and the run could still start another.
C6_Witness ==
    /\ uploadCalls = 1
    /\ isUploading
    /\ uploads < MaxUploads

\* C7: whenever a terminal upload status, success or failure, is shown, a timer
\* that will revert it to no status is armed (nothing else reverts it without a
\* user action).
C7_TerminalStatusClears ==
    uploadStatus \in {StatusSuccess, StatusFailure} => timers > 0

\* C8: a failed send keeps the conversation, optimistic user message included,
\* and appends one assistant message whose content is an error marker followed
\* by the human-readable message of the failure.
C8_ErrorNoticeCarriesMessage ==
    [][\A req \in ChatCalls, err \in Errors :
          SendChatFails(req, err)
          => /\ Len(messages') = Len(messages) + 1
             /\ SubSeq(messages', 1, Len(messages)) = messages
             /\ Last(messages').role = "assistant"
             /\ EndsWith(Last(messages').content, ErrorText(err))
             /\ Len(Last(messages').content) > Len(ErrorText(err))]_vars

\* t is s without its leading and trailing spaces.
IsTrimOf(t, s) ==
    /\ \E i, j \in 0..Len(s) :
          /\ i + j <= Len(s)
          /\ t = SubSeq(s, i + 1, Len(s) - j)
          /\ \A k \in 1..i : s[k] = " "
          /\ \A k \in (Len(s) - j + 1)..Len(s) : s[k] = " "
    /\ t # <<>> => (t[1] # " " /\ Last(t) # " ")

\* C9: a valid send on conversation M appends {user, trimmed text} at once and
\* leaves its call outstanding; when nothing else happens before the call
\* resolves with reply r, the conversation is M, {user, text}, {assistant, r}.
C9_OptimisticThenReply ==
    [][ /\ ( /\ ~Blank(inputValue)
             /\ currentSessionId # NULL
             /\ ~isLoading
             /\ SendMessage )
          => \E a, b \in 1..Len(inputValue) :
                LET t == SubSeq(inputValue, a, b) IN
                /\ IsTrimOf(t, inputValue)
                /\ messages' = messages \o <<UserMsg(t)>>
                /\ ChatReq(t, currentSessionId) \in BagToSet(pending')
        /\ \A req \in ChatCalls, reply \in Replies :
             (sendBase # <<>> /\ SendChatOk(req, reply))
             => messages' = sendBase[1] \o <<UserMsg(req.message),
                                              AssistantMsg(reply)>> ]_vars

\* A send accepted on a conversation that already held messages, its call
\* outstanding and nothing else having happened since.
C9_Witness ==
    /\ sendBase # <<>>
    /\ sendBase[1] # <<>>
    /\ messages = sendBase[1] \o <<UserMsg(<<"h", "i">>)>>
    /\ Outstanding("sendChat") = 1

\* C10: every append (the user message of an accepted send, the reply, the
\* error notice) adds one message at the end and leaves the messages already
\* present as they were, in their order.
C10_AppendOnly ==
    [][ ( \/ (SendMessage /\ pending' # pending)
          \/ \E req \in ChatCalls, reply \in Replies : SendChatOk(req, reply)
          \/ \E req \in ChatCalls, err \in Errors : SendChatFails(req, err) )
        => /\ Len(messages') = Len(messages) + 1
           /\ SubSeq(messages', 1, Len(messages)) = messages ]_vars

\* Two exchanges were appended one after the other: user, assistant, user,
\* assistant, with no send outstanding.
C10_Witness ==
    /\ Len(messages) >= 4
    /\ ~isLoading
    /\ messages[Len(messages) - 3].role = "user"
    /\ messages[Len(messages) - 2].role = "assistant"
    /\ messages[Len(messages) - 1].role = "user"
    /\ Last(messages).role = "assistant"

\* C11: when a session-list fetch, a session create, a session delete or a
\* message fetch fails, the list of sessions, the selection and the
\* conversation are exactly what they were before the failure was handled.
C11_FailureMutatesNothing ==
    [][\A req \in ChatCalls :
          ( /\ req.kind \in {"listSessions", "createSession",
                             "deleteSession", "fetchMessages"}
            /\ RequestFails(req) )
          => /\ sessions' = sessions
             /\ currentSessionId' = currentSessionId
             /\ messages' = messages]_vars

\* The startup fetch of the list failed and so did a create: the server holds
\* a session the client never listed, the one call the run issued is no longer
\* outstanding, and it created nothing.
C11_Witness ==
    /\ issued = 1
    /\ pending = EmptyBag
    /\ srvSessions = <<1>>
    /\ nextId = 2
    /\ sessions = <<>>
    /\ currentSessionId = NULL
    /\ messages = <<>>

\* C12: when a create succeeds, the list becomes the returned session followed
\* by the sessions that were in the list just before the completion was
\* handled, and the returned session becomes the selection; this also holds
\* when another create, a delete or the startup fetch completed meanwhile.
C12_CreatePrependsToLiveList ==
    [][\A req \in ChatCalls :
          (req.kind = "createSession" /\ CreateSessionOk(req))
          => /\ sessions' = <<nextId>> \o sessions
             /\ currentSessionId' = nextId]_vars

\* C13: when the startup fetch of the list completes with a non-empty list it
\* selects the first session only if nothing is selected at that moment; a
\* selection made while the fetch was outstanding is left as it is.
C13_ListFetchKeepsSelection ==
    [][\A req \in ChatCalls :
          (req.kind = "listSessions" /\ FetchSessionsOk(req))
          => currentSessionId' =
                IF currentSessionId = NULL /\ srvSessions # <<>>
                THEN srvSessions[1]
                ELSE currentSessionId]_vars

\* C14: the failure text shown for a failed send is chosen by priority: the
\* error field of the server's response if there is one, else the message of
\* the transport error if there is one, else "Unknown error"; it is never
\* empty.
C14_FailureTextByPriority ==
    [][\A req \in ChatCalls, err \in Errors :
          SendChatFails(req, err)
          => LET shown == Last(messages').content
             IN /\ shown # <<>>
                /\ err.error # <<>> => EndsWith(shown, err.error)
                /\ (err.error = <<>> /\ err.message # <<>>)
                      => EndsWith(shown, err.message)
                /\ (err.error = <<>> /\ err.message = <<>>)
                      => EndsWith(shown, UnknownError)]_vars

\* C15: the send cycle is idle, sending, idle: the loading flag is set exactly
\* while a sendChat call is outstanding; an accepted send sets it, and the
\* completion of the call, reply or failure, clears it and appends exactly one
\* assistant message to the conversation.
C15_SendCycle ==
    /\ [](isLoading <=> Outstanding("sendChat") > 0)
    /\ [][(SendMessage /\ pending' # pending)
             => (~isLoading /\ isLoading')]_vars
    /\ [][\A req \in ChatCalls :
             (req.kind = "sendChat" /\ pending' = Complete(pending, req))
             => /\ isLoading
                /\ ~isLoading'
                /\ Len(messages') = Len(messages) + 1
                /\ SubSeq(messages', 1, Len(messages)) = messages
                /\ Last(messages').role = "assistant"]_vars

\* Back to idle after a send that failed: the error notice follows the user
\* message, no sendChat call is outstanding and the flag is clear.
C15_Witness ==
    /\ ~isLoading
    /\ Outstanding("sendChat") = 0
    /\ Len(messages) >= 2
    /\ messages[Len(messages) - 1].role = "user"
    /\ Last(messages) = AssistantMsg(ConnectionError)

\* The timeout of the /chat call in milliseconds.  axios.post is given the url
\* and the body and no config, App.jsx:101-104, so the call runs with axios's
\* default, 0: no timeout.
SendTimeout == 0

\* What obliges an outstanding /chat call to complete: with a timeout, axios
\* rejects the call once it expires, whatever the backend does.  Nothing else
\* in the client makes a call end; the backend is free never to answer.
SendTimesOut ==
    /\ SendTimeout > 0
    /\ \E req \in ChatCalls, err \in Errors : SendChatFails(req, err)

FairChatSpec == ChatSpec /\ WF_vars(SendTimesOut)

\* C16: the /chat call is bounded by a timeout, so a send whose backend never
\* answers ends as a failure, the loading flag clear again: the client never
\* stays in the sending state forever.
C16_SendNeverHangs == isLoading ~> ~isLoading

\* C17: selecting a session other than the current one empties the
\* conversation in the same step, so the messages of the session left behind
\* are not on screen while the fetch for the new one is outstanding.
C17_SelectClearsConversation ==
    [][\A id \in Range(sessions) :
          (SelectSession(id) /\ id # currentSessionId)
          => messages' = <<>>]_vars

\* The number of user messages in a conversation.
UserMessages(msgs) == Cardinality({i \in 1..Len(msgs) : msgs[i].role = "user"})

\* C18: a user message appended by an accepted send stays in the conversation
\* for as long as the selection does not change; a response of fetchMessages
\* for the selected session, requested before the send, does not remove it.
C18_OptimisticMessageStays ==
    [][currentSessionId' = currentSessionId
          => /\ UserMessages(messages') >= UserMessages(messages)
             /\ \A i \in 1..Len(messages) :
                   messages[i].role = "user"
                   => \E j \in 1..Len(messages') : messages'[j] = messages[i]]_vars

\* C19: a session whose delete has succeeded (it once existed, the server no
\* longer holds it and the list no longer shows it) never comes back into the
\* list, whichever delete or create completes afterwards.
C19_DeletedStaysDeleted ==
    [][\A id \in 1..(nextId - 1) :
          (id \notin Range(srvSessions) /\ id \notin Range(sessions))
          => id \notin Range(sessions')]_vars

\* C20: in every state in which an upload is in flight the status shown is the
\* in-progress indicator; the timer of an earlier successful upload does not
\* put the status back to idle while a later upload is in flight.
C20_InFlightShowsProgress ==
    (isUploading \/ uploadCalls > 0) => uploadStatus = StatusUploading

\* C21: in every state in which no list fetch, create or delete is
\* outstanding, the selection is null or the id of a listed session; a session
\* selected while its own delete is outstanding does not stay selected once
\* the delete has succeeded.
C21_SelectionIsListed ==
    ( /\ Outstanding("listSessions") = 0
      /\ Outstanding("createSession") = 0
      /\ Outstanding("deleteSession") = 0 )
    => (currentSessionId = NULL \/ currentSessionId \in Range(sessions))

====
